---- MODULE Spec2Model ----
(***************************************************************************)
(* cloud-foundry-config-client: the source resolver (getLoaderConfig), the *)
(* loader dispatch (load), the refresh driver (loadAndRepeat) and the      *)
(* global holder (Config.current / Config.load), modelled from             *)
(* src/src/cloudFoundryConfigClient.ts (lines 228-507).                    *)
(*                                                                         *)
(* A JavaScript object is a function with a string domain; a missing       *)
(* property is a key outside the domain.  A promise is the pc of the call  *)
(* that returned it.  A load in flight is a record of the variable         *)
(* inflight; it settles in one step together with the continuation that    *)
(* awaits it (the continuation is a microtask of the settlement).          *)
(***************************************************************************)
EXTENDS Integers, Sequences, FiniteSets, TLC

(***************************************************************************)
(* Bounds of the model.                                                    *)
(***************************************************************************)
\* timer ticks that fire in one run (over all timers)
MaxTicks == 4
\* distinct configuration values a loader can return
NumValues == 2

\* the two Config.load invocations of a run, in the order they are made
CallIds == {1, 2}

\* the parsed configurations a loader can return (opaque to the client)
Values == 1..NumValues

\* the value of Config.current before any assignment
Undefined == 0

\* what a loader can reject with
LoadErrors ==
    { [name |-> "Error", message |-> "error loading local config"],
      [name |-> "RequestError", message |-> "connect ETIMEDOUT"] }

(***************************************************************************)
(* Load parameters (ConfigParams).  interval is optional: a params object  *)
(* without the key stands for interval === undefined.                      *)
(***************************************************************************)
AppNames == {"testApp", "myExpressApp"}
Profiles == {"test"}
ServerNames == {"test-config", "myConfigServer"}
ConfigLocations == {"local", "remote", "remoteSkipAuth"}
Intervals == {0, 1}

BaseParams(apps, locs, servers) ==
    [appName : apps, profile : Profiles, configServerName : servers,
     configLocation : locs]

WithInterval(p, i) ==
    [k \in DOMAIN p \cup {"interval"} |-> IF k = "interval" THEN i ELSE p[k]]

ParamsOver(apps, locs, servers) ==
    BaseParams(apps, locs, servers)
      \cup { WithInterval(p, i) : p \in BaseParams(apps, locs, servers), i \in Intervals }

\* every params object the model passes to Config.load
AllParams == ParamsOver(AppNames, ConfigLocations, ServerNames)

\* the params objects of the refresh-driver runs
DriverParams == ParamsOver({"testApp"}, {"local", "remote"}, {"test-config"})

(***************************************************************************)
(* Service bindings: the JSON of VCAP_SERVICES / vcap_services.json.       *)
(***************************************************************************)
EmptyObject == [k \in {} |-> <<>>]

Credentials(u) ==
    [uri |-> u, access_token_uri |-> "local.token",
     client_id |-> "id", client_secret |-> "secret"]

Binding(n, cred) == [name |-> n, credentials |-> cred]

\* test/vcap_services_p-config-server.json, with a second binding before it
RegHyphen ==
    "p-config-server" :>
        << Binding("myConfigServer", Credentials("https://other.config")),
           Binding("test-config", Credentials("local.config")) >>

\* test/vcap_services_p.config-server.json
RegDot ==
    "p.config-server" :> << Binding("test-config", Credentials("local.config")) >>

\* test/vcap_services_invalid.json: neither service-type key
RegInvalid ==
    "invalid" :> << Binding("test-config", Credentials("local.config")) >>

\* a config server bound without OAuth2 credentials: only a uri
RegUriOnly ==
    "p-config-server" :> << Binding("test-config", [uri |-> "http://localhost:8888"]) >>

\* a binding whose credentials carry a property beyond the four documented ones
RegExtraPath ==
    "p-config-server" :>
        << Binding("test-config",
                   [uri |-> "local.config", access_token_uri |-> "local.token",
                    client_id |-> "id", client_secret |-> "secret",
                    path |-> "/config"]) >>

Registries == {RegHyphen, RegDot, RegInvalid, RegUriOnly, RegExtraPath, EmptyObject}

\* the content of process.env.VCAP_SERVICES
EnvStrings ==
    { [kind |-> "unset", value |-> EmptyObject],
      [kind |-> "empty", value |-> EmptyObject],
      [kind |-> "malformed", value |-> EmptyObject],
      [kind |-> "null", value |-> EmptyObject] }
      \cup { [kind |-> "json", value |-> r] : r \in Registries }

\* the content of ./vcap_services.json
FileContents ==
    { [kind |-> "absent", value |-> EmptyObject],
      [kind |-> "malformed", value |-> EmptyObject],
      [kind |-> "json", value |-> RegHyphen] }

(***************************************************************************)
(* Results of a call: a returned value or a thrown error.                  *)
(***************************************************************************)
Return(v) == [threw |-> FALSE, value |-> v]

Throw(e) == [threw |-> TRUE, error |-> e]

\* JSON.parse on text that is not JSON
SyntaxError == [name |-> "SyntaxError", message |-> "Unexpected token in JSON"]

\* vcap_services["p-config-server"].find(...) when the key is missing
TypeErrorFind ==
    [name |-> "TypeError", message |-> "Cannot read property 'find' of undefined"]

\* const { credentials } = undefined, when find(...) matched no entry
TypeErrorDestructure ==
    [name |-> "TypeError",
     message |-> "Cannot destructure property 'credentials' of 'undefined'"]

(***************************************************************************)
(* loadVcapServices(vcap_services, vcaplocalPath)                          *)
(***************************************************************************)
\* JSON.parse(text) for the text kinds of the model
JSONparse(text) ==
    CASE text.kind = "json" -> Return(text.value)
      [] text.kind = "null" -> Return(EmptyObject)
      [] OTHER -> Throw(SyntaxError)

\* JavaScript truthiness of a string | undefined
TruthyString(text) == text.kind \notin {"unset", "empty"}

\* fs.existsSync(localPath)
existsSync(file) == file.kind # "absent"

\* loadVcapServices mutated: the fallback file is looked at first
loadVcapServices_fileFirst(vcap_services, file) ==
    IF existsSync(file)
    THEN JSONparse(file)
    ELSE IF TruthyString(vcap_services)
         THEN JSONparse(vcap_services) ELSE Return(EmptyObject)

loadVcapServices(vcap_services, file) ==
    IF TruthyString(vcap_services)
    THEN JSONparse(vcap_services)
    ELSE IF existsSync(file) THEN JSONparse(file) ELSE Return(EmptyObject)

(***************************************************************************)
(* getLoaderConfig(params, loadVcapServicesFunc)                           *)
(***************************************************************************)
\* find mutated: the first entry of the list is taken, whatever its name
find_firstEntry(list, n) == IF Len(list) = 0 THEN 0 ELSE 1

\* Array.prototype.find(cfg => cfg.name === n): the index of the first match, 0 for undefined
find(list, n) ==
    LET hits == { i \in 1..Len(list) : list[i].name = n }
    IN  IF hits = {} THEN 0 ELSE CHOOSE i \in hits : \A j \in hits : i <= j

\* { ...a, ...b }: the properties of b override those of a
Spread(a, b) ==
    [k \in DOMAIN a \cup DOMAIN b |-> IF k \in DOMAIN b THEN b[k] ELSE a[k]]

\* LocalPath mutated: appName and configServerName change places
LocalPath_swapped(params) ==
    "./" \o params.appName \o "/" \o params.configServerName \o "-"
         \o params.profile \o ".yml"

\* `./${configServerName}/${appName}-${profile}.yml`
LocalPath(params) ==
    "./" \o params.configServerName \o "/" \o params.appName \o "-"
         \o params.profile \o ".yml"

\* the object literal of the local branch
LocalLoaderConfig(params) == [path |-> LocalPath(params)]

\* RemoteLoaderConfig mutated: a missing entry is tolerated (found && found.credentials)
RemoteLoaderConfig_lenient(params, vcap_services) ==
    IF "p-config-server" \notin DOMAIN vcap_services
    THEN Throw(TypeErrorFind)
    ELSE LET list == vcap_services["p-config-server"]
             i == find(list, params.configServerName)
         IN  Return(Spread([appName |-> params.appName,
                            profile |-> params.profile],
                           IF i # 0 /\ "credentials" \in DOMAIN list[i]
                           THEN list[i].credentials ELSE EmptyObject))

\* the entry of the list named configServerName, as the remote branch looks it up
RemoteLoaderConfig(params, vcap_services) ==
    IF "p-config-server" \notin DOMAIN vcap_services
    THEN Throw(TypeErrorFind)
    ELSE LET list == vcap_services["p-config-server"]
             i == find(list, params.configServerName)
         IN  IF i = 0
             THEN Throw(TypeErrorDestructure)
             ELSE Return(Spread([appName |-> params.appName,
                                 profile |-> params.profile],
                                IF "credentials" \in DOMAIN list[i]
                                THEN list[i].credentials ELSE EmptyObject))

getLoaderConfig(params, env, file) ==
    LET vcap_services == loadVcapServices(env, file)
    IN  IF vcap_services.threw
        THEN vcap_services
        ELSE IF params.configLocation = "remote"
             THEN RemoteLoaderConfig(params, vcap_services.value)
             ELSE Return(LocalLoaderConfig(params))

(***************************************************************************)
(* isLocalConfig(config) and the dispatch of load(config, params, ...)     *)
(***************************************************************************)
isLocalConfig(config) == "path" \in DOMAIN config

\* the loader function load() calls, with its argument
Dispatch(config) ==
    IF isLocalConfig(config)
    THEN [loader |-> "loadLocal", arg |-> config]
    ELSE [loader |-> "loadRemote", arg |-> config]

\* if (interval): a number other than 0 is truthy, undefined is not
TruthyInterval(params) == "interval" \in DOMAIN params /\ params.interval # 0

(***************************************************************************)
(* State.                                                                  *)
(***************************************************************************)
VARIABLES
    envVcap,    \* process.env.VCAP_SERVICES
    fileVcap,   \* ./vcap_services.json
    current,    \* Config.current
    call,       \* per Config.load invocation: its promise, params and descriptor
    timers,     \* the setInterval timers scheduled so far (none is ever cleared)
    inflight,   \* the loads started and not yet settled
    fired,      \* per invocation: ticks of its timer that have fired
    sinkCalls,  \* per invocation: times updateFunc has been invoked
    problems,   \* per invocation: "Problem encountered ..." diagnostics emitted
    remote      \* per loadRemote call: its position, and the requests and answers so far

vars ==
    << envVcap, fileVcap, current, call, timers, inflight, fired, sinkCalls,
       problems, remote >>

NoError == [name |-> "", message |-> ""]

\* a Config.load that has not been invoked yet
\*   pc            "idle", "loading" (awaiting the initial load), "resolved", "rejected"
\*   params        the argument of Config.load
\*   vcap_services what loadVcapServicesFunc returned or threw (line 406)
\*   config        the descriptor getLoaderConfig returned (line 501)
\*   loadError     what the initial load rejected with, if it did
\*   rejection     what the promise of Config.load rejected with, if it did
\*   result        what the initial load resolved with, if it did
\*   refreshed     what the latest successful tick load resolved with
\*   refreshError  what the latest failed tick load rejected with
\*   diagnostic    the latest "Problem encountered ..." line the catch block logged
IdleCall ==
    [pc |-> "idle", params |-> EmptyObject, vcap_services |-> Return(EmptyObject),
     config |-> EmptyObject, loadError |-> NoError, rejection |-> NoError,
     result |-> Undefined, refreshed |-> Undefined, refreshError |-> NoError,
     diagnostic |-> ""]

\* the loads in flight that invocation c started
LoadsOf(c) == { l \in inflight : l.call = c }

\* ticks fired over all timers
TotalFired == fired[1] + fired[2]

\* ConfigLoad mutated: loadAndRepeat is not awaited, the promise resolves at once
ConfigLoad_notAwaited(c, params) ==
    /\ call[c].pc = "idle"
    /\ \A d \in CallIds : d < c => call[d].pc # "idle"
    /\ LET config == getLoaderConfig(params, envVcap, fileVcap)
       IN  /\ ~config.threw
           /\ call' = [call EXCEPT ![c] =
                 [@ EXCEPT !.pc = "resolved", !.params = params,
                           !.vcap_services = loadVcapServices(envVcap, fileVcap),
                           !.config = config.value]]
           /\ inflight' = inflight \cup
                 { [call |-> c, tick |-> 0,
                    loader |-> Dispatch(config.value).loader,
                    arg |-> Dispatch(config.value).arg] }
    /\ UNCHANGED << remote, envVcap, fileVcap, current, timers, fired, sinkCalls, problems >>

(***************************************************************************)
(* Config.load(params), lines 500-505, up to the first await of            *)
(* loadAndRepeat (line 440): resolve the descriptor, dispatch, call the    *)
(* loader.  A throw of getLoaderConfig rejects the promise of Config.load. *)
(***************************************************************************)
ConfigLoad(c, params) ==
    /\ call[c].pc = "idle"
    /\ \A d \in CallIds : d < c => call[d].pc # "idle"
    /\ LET config == getLoaderConfig(params, envVcap, fileVcap)
       IN  IF config.threw
           THEN /\ call' = [call EXCEPT ![c] =
                      [@ EXCEPT !.pc = "rejected", !.params = params,
                                !.vcap_services = loadVcapServices(envVcap, fileVcap),
                                !.rejection = config.error]]
                /\ UNCHANGED inflight
           ELSE /\ call' = [call EXCEPT ![c] =
                      [@ EXCEPT !.pc = "loading", !.params = params,
                                !.vcap_services = loadVcapServices(envVcap, fileVcap),
                                !.config = config.value]]
                /\ inflight' = inflight \cup
                      { [call |-> c, tick |-> 0,
                         loader |-> Dispatch(config.value).loader,
                         arg |-> Dispatch(config.value).arg] }
    /\ UNCHANGED << remote, envVcap, fileVcap, current, timers, fired, sinkCalls, problems >>

(***************************************************************************)
(* The sink Config.load passes to loadAndRepeat, lines 502-504:            *)
(* loadedConfig => { this.current = loadedConfig }.                        *)
(***************************************************************************)
updateFunc(loadedConfig) == loadedConfig

\* ScheduledTimers mutated: the period is passed in seconds, not milliseconds
ScheduledTimers_seconds(c, params) ==
    IF TruthyInterval(params)
    THEN { [call |-> c, period |-> params.interval] }
    ELSE {}

\* ScheduledTimers mutated: the if (interval) guard is lost
ScheduledTimers_unguarded(c, params) ==
    { [call |-> c,
       period |-> IF "interval" \in DOMAIN params THEN params.interval * 1000 ELSE 0] }

(***************************************************************************)
(* Lines 442-459: the timers loadAndRepeat schedules after the first sink  *)
(* call, setInterval(callback, interval * 1000) under if (interval).       *)
(***************************************************************************)
ScheduledTimers(c, params) ==
    IF TruthyInterval(params)
    THEN { [call |-> c, period |-> params.interval * 1000] }
    ELSE {}

(***************************************************************************)
(* Line 440 onwards, when the awaited initial load resolves with v: the    *)
(* sink is invoked, the timer is scheduled, loadAndRepeat returns and the  *)
(* promise of Config.load resolves.                                        *)
(***************************************************************************)
InitialLoadResolves(l, v) ==
    /\ l \in inflight
    /\ l.tick = 0
    /\ current' = updateFunc(v)
    /\ sinkCalls' = [sinkCalls EXCEPT ![l.call] = @ + 1]
    /\ timers' = timers \cup ScheduledTimers(l.call, call[l.call].params)
    /\ call' = [call EXCEPT ![l.call] = [@ EXCEPT !.pc = "resolved", !.result = v]]
    /\ inflight' = inflight \ {l}
    /\ UNCHANGED << remote, envVcap, fileVcap, fired, problems >>

\* InitialLoadRejects mutated: the initial load is wrapped in the ticks' try/catch
InitialLoadRejects_caught(l, e) ==
    /\ l \in inflight
    /\ l.tick = 0
    /\ problems' = [problems EXCEPT ![l.call] = @ + 1]
    /\ timers' = timers \cup ScheduledTimers(l.call, call[l.call].params)
    /\ call' = [call EXCEPT ![l.call] = [@ EXCEPT !.pc = "resolved", !.loadError = e]]
    /\ inflight' = inflight \ {l}
    /\ UNCHANGED << remote, envVcap, fileVcap, current, fired, sinkCalls >>

(***************************************************************************)
(* Line 440, when the awaited initial load rejects with e: no try/catch    *)
(* surrounds it, so loadAndRepeat and Config.load reject with e.           *)
(***************************************************************************)
InitialLoadRejects(l, e) ==
    /\ l \in inflight
    /\ l.tick = 0
    /\ call' = [call EXCEPT ![l.call] =
          [@ EXCEPT !.pc = "rejected", !.loadError = e, !.rejection = e]]
    /\ inflight' = inflight \ {l}
    /\ UNCHANGED << remote, envVcap, fileVcap, current, timers, fired,
                    sinkCalls, problems >>

(***************************************************************************)
(* Lines 447-452: a timer fires; its callback calls load() with the        *)
(* descriptor and params loadAndRepeat was given.  setInterval fires       *)
(* whether or not earlier callbacks have finished their await.             *)
(***************************************************************************)
\* Tick mutated: each tick resolves the descriptor again from the environment
Tick_reresolve(t) ==
    /\ t \in timers
    /\ TotalFired < MaxTicks
    /\ fired' = [fired EXCEPT ![t.call] = @ + 1]
    /\ LET again == getLoaderConfig(call[t.call].params, envVcap, fileVcap)
           config == IF again.threw THEN call[t.call].config ELSE again.value
       IN  inflight' = inflight \cup
              { [call |-> t.call, tick |-> fired[t.call] + 1,
                 loader |-> Dispatch(config).loader,
                 arg |-> Dispatch(config).arg] }
    /\ UNCHANGED << remote, envVcap, fileVcap, current, call, timers, sinkCalls, problems >>

Tick(t) ==
    /\ t \in timers
    /\ TotalFired < MaxTicks
    /\ fired' = [fired EXCEPT ![t.call] = @ + 1]
    /\ inflight' = inflight \cup
          { [call |-> t.call, tick |-> fired[t.call] + 1,
             loader |-> Dispatch(call[t.call].config).loader,
             arg |-> Dispatch(call[t.call].config).arg] }
    /\ UNCHANGED << remote, envVcap, fileVcap, current, call, timers, sinkCalls, problems >>

\* TickLoadResolves mutated: the result is loaded and logged, the sink is not invoked
TickLoadResolves_noSink(l, v) ==
    /\ l \in inflight
    /\ l.tick > 0
    /\ call' = [call EXCEPT ![l.call] = [@ EXCEPT !.refreshed = v]]
    /\ inflight' = inflight \ {l}
    /\ UNCHANGED << remote, envVcap, fileVcap, current, timers, fired, sinkCalls, problems >>

\* TickLoadResolves mutated: the sink is invoked with the value loaded first
TickLoadResolves_stale(l, v) ==
    /\ l \in inflight
    /\ l.tick > 0
    /\ current' = updateFunc(call[l.call].result)
    /\ sinkCalls' = [sinkCalls EXCEPT ![l.call] = @ + 1]
    /\ call' = [call EXCEPT ![l.call] = [@ EXCEPT !.refreshed = v]]
    /\ inflight' = inflight \ {l}
    /\ UNCHANGED << remote, envVcap, fileVcap, timers, fired, problems >>

(***************************************************************************)
(* Line 452, when a tick's load resolves with v: the sink is invoked.      *)
(***************************************************************************)
TickLoadResolves(l, v) ==
    /\ l \in inflight
    /\ l.tick > 0
    /\ current' = updateFunc(v)
    /\ sinkCalls' = [sinkCalls EXCEPT ![l.call] = @ + 1]
    /\ call' = [call EXCEPT ![l.call] = [@ EXCEPT !.refreshed = v]]
    /\ inflight' = inflight \ {l}
    /\ UNCHANGED << remote, envVcap, fileVcap, timers, fired, problems >>

\* `${err}` for an Error: Error.prototype.toString
ErrorString(e) == e.name \o ": " \o e.message

\* ProblemLine mutated: the error is left out of the line
ProblemLine_noError(e) ==
    "Problem encountered while refreshing config; using previous config"

\* lines 454-456: the line the catch block logs for the error it caught
ProblemLine(e) ==
    "Problem encountered while refreshing config; using previous config: "
        \o ErrorString(e)

\* TickLoadRejects mutated: the sink is invoked inside the catch block, with undefined
TickLoadRejects_sinkUndefined(l, e) ==
    /\ l \in inflight
    /\ l.tick > 0
    /\ problems' = [problems EXCEPT ![l.call] = @ + 1]
    /\ current' = updateFunc(Undefined)
    /\ sinkCalls' = [sinkCalls EXCEPT ![l.call] = @ + 1]
    /\ inflight' = inflight \ {l}
    /\ UNCHANGED << remote, envVcap, fileVcap, call, timers, fired >>

(***************************************************************************)
(* Lines 453-457, when a tick's load rejects with e: the catch block emits *)
(* the diagnostic and nothing else.                                        *)
(***************************************************************************)
TickLoadRejects(l, e) ==
    /\ l \in inflight
    /\ l.tick > 0
    /\ problems' = [problems EXCEPT ![l.call] = @ + 1]
    /\ call' = [call EXCEPT ![l.call] =
          [@ EXCEPT !.refreshError = e, !.diagnostic = ProblemLine(e)]]
    /\ inflight' = inflight \ {l}
    /\ UNCHANGED << remote, envVcap, fileVcap, current, timers, fired, sinkCalls >>

(***************************************************************************)
(* The environment: the platform or the operator rewrites VCAP_SERVICES    *)
(* or the fallback file.                                                   *)
(***************************************************************************)
SetEnv(text) ==
    /\ envVcap # text
    /\ envVcap' = text
    /\ UNCHANGED << remote, fileVcap, current, call, timers, inflight, fired,
                    sinkCalls, problems >>

SetFile(file) ==
    /\ fileVcap # file
    /\ fileVcap' = file
    /\ UNCHANGED << remote, envVcap, current, call, timers, inflight, fired,
                    sinkCalls, problems >>

(***************************************************************************)
(* loadRemote(config, request): the token POST, then the config GET.       *)
(***************************************************************************)
\* the loadRemote calls of a run
RemoteLoads == {1, 2}

\* the descriptors getLoaderConfig returns for a bound config server
RemoteLoaderConfigs ==
    { Spread([appName |-> a, profile |-> p], Credentials(u)) :
        a \in AppNames, p \in Profiles, u \in {"local.config", "https://other.config"} }

\* what the token endpoint can answer with
PostBodies ==
    { [kind |-> "json", value |-> [access_token |-> "1234"]],
      [kind |-> "json", value |-> [access_token |-> "test_token"]],
      [kind |-> "json", value |-> EmptyObject],
      [kind |-> "malformed", value |-> EmptyObject] }

\* what the config endpoint can answer with: YAML of a value, or text that is not YAML
YmlStrings ==
    { [kind |-> "yaml", value |-> v] : v \in Values }
        \cup { [kind |-> "malformed", value |-> Undefined] }

\* what request.post / request.get can reject with
RequestErrors ==
    { [name |-> "RequestError", message |-> "connect ECONNREFUSED"],
      [name |-> "StatusCodeError", message |-> "401"] }

YAMLException == [name |-> "YAMLException", message |-> "bad indentation"]

\* yaml.safeLoad(ymlString)
safeLoad(ymlString) ==
    IF ymlString.kind = "yaml" THEN Return(ymlString.value) ELSE Throw(YAMLException)

\* lines 327-329: request.post(access_token_uri, { form: {...} })
PostRequest(config) ==
    [method |-> "POST", uri |-> config.access_token_uri,
     form |-> [grant_type |-> "client_credentials",
               client_id |-> config.client_id,
               client_secret |-> config.client_secret]]

\* TokenString mutated: a missing access_token gives an empty token
TokenString_empty(parsed) ==
    IF "access_token" \in DOMAIN parsed THEN parsed.access_token ELSE ""

\* `${access_token}` of const { access_token } = JSON.parse(response)
TokenString(parsed) ==
    IF "access_token" \in DOMAIN parsed THEN parsed.access_token ELSE "undefined"

\* GetRequest mutated: the client id is sent in place of the token
GetRequest_clientId(config, parsed) ==
    [method |-> "GET",
     uri |-> config.uri \o "/" \o config.appName \o "-" \o config.profile \o ".yml",
     headers |-> [authorization |-> "bearer " \o config.client_id]]

\* lines 331-336: request.get({ uri, headers: { authorization } })
GetRequest(config, parsed) ==
    [method |-> "GET",
     uri |-> config.uri \o "/" \o config.appName \o "-" \o config.profile \o ".yml",
     headers |-> [authorization |-> "bearer " \o TokenString(parsed)]]

\* a loadRemote that has not been called yet
\*   pc      "idle", "posting" (awaiting request.post), "getting" (awaiting
\*           request.get), "resolved", "rejected"
\*   config  the descriptor it was called with
\*   log     the requests issued and the answers and failures received, in order
\*   value   what the promise resolved with, if it did
\*   error   what the promise rejected with, if it did
IdleLoad ==
    [pc |-> "idle", config |-> EmptyObject, log |-> << >>, value |-> Undefined,
     error |-> NoError]

\* lines 315-329: loadRemote is called and issues the token POST
LoadRemoteCall(i, config) ==
    /\ remote[i].pc = "idle"
    /\ remote' = [remote EXCEPT ![i] =
          [@ EXCEPT !.pc = "posting", !.config = config,
                    !.log = << PostRequest(config) >>]]
    /\ UNCHANGED << envVcap, fileVcap, current, call, timers, inflight, fired,
                    sinkCalls, problems >>

\* lines 327-336: the POST is answered; the body is parsed and the GET issued
PostResponds(i, body) ==
    /\ remote[i].pc = "posting"
    /\ LET answered == Append(remote[i].log, [answer |-> "POST", body |-> body])
           parsed == JSONparse(body)
       IN  remote' = [remote EXCEPT ![i] =
             IF parsed.threw
             THEN [@ EXCEPT !.pc = "rejected", !.log = answered,
                            !.error = parsed.error]
             ELSE [@ EXCEPT !.pc = "getting",
                            !.log = Append(answered,
                                           GetRequest(remote[i].config, parsed.value))]]
    /\ UNCHANGED << envVcap, fileVcap, current, call, timers, inflight, fired,
                    sinkCalls, problems >>

\* PostFails mutated: a failed POST is sent once more
PostFails_retry(i, e) ==
    /\ remote[i].pc = "posting"
    /\ LET failed == Append(remote[i].log, [failure |-> "POST", error |-> e])
       IN  remote' = [remote EXCEPT ![i] =
             IF Len(remote[i].log) = 1
             THEN [@ EXCEPT !.log = Append(failed, PostRequest(remote[i].config))]
             ELSE [@ EXCEPT !.pc = "rejected", !.log = failed, !.error = e]]
    /\ UNCHANGED << envVcap, fileVcap, current, call, timers, inflight, fired,
                    sinkCalls, problems >>

\* lines 327-329: the awaited request.post rejects, and so does loadRemote
PostFails(i, e) ==
    /\ remote[i].pc = "posting"
    /\ remote' = [remote EXCEPT ![i] =
          [@ EXCEPT !.pc = "rejected",
                    !.log = Append(@, [failure |-> "POST", error |-> e]),
                    !.error = e]]
    /\ UNCHANGED << envVcap, fileVcap, current, call, timers, inflight, fired,
                    sinkCalls, problems >>

\* lines 331-337: the GET is answered; the text is parsed as YAML and returned
GetResponds(i, ymlString) ==
    /\ remote[i].pc = "getting"
    /\ LET answered == Append(remote[i].log, [answer |-> "GET", body |-> ymlString])
           loaded == safeLoad(ymlString)
       IN  remote' = [remote EXCEPT ![i] =
             IF loaded.threw
             THEN [@ EXCEPT !.pc = "rejected", !.log = answered,
                            !.error = loaded.error]
             ELSE [@ EXCEPT !.pc = "resolved", !.log = answered,
                            !.value = loaded.value]]
    /\ UNCHANGED << envVcap, fileVcap, current, call, timers, inflight, fired,
                    sinkCalls, problems >>

\* lines 331-336: the awaited request.get rejects, and so does loadRemote
GetFails(i, e) ==
    /\ remote[i].pc = "getting"
    /\ remote' = [remote EXCEPT ![i] =
          [@ EXCEPT !.pc = "rejected",
                    !.log = Append(@, [failure |-> "GET", error |-> e]),
                    !.error = e]]
    /\ UNCHANGED << envVcap, fileVcap, current, call, timers, inflight, fired,
                    sinkCalls, problems >>

(***************************************************************************)
(* The refresh driver: Config.load with the service bindings of the test   *)
(* fixture in the fallback file, then the timer.                           *)
(***************************************************************************)
Init ==
    /\ envVcap = [kind |-> "unset", value |-> EmptyObject]
    /\ fileVcap = [kind |-> "json", value |-> RegHyphen]
    /\ current = Undefined
    /\ call = [c \in CallIds |-> IdleCall]
    /\ timers = {}
    /\ inflight = {}
    /\ fired = [c \in CallIds |-> 0]
    /\ sinkCalls = [c \in CallIds |-> 0]
    /\ problems = [c \in CallIds |-> 0]
    /\ remote = [i \in RemoteLoads |-> IdleLoad]

Next ==
    \/ \E c \in CallIds, params \in DriverParams : ConfigLoad(c, params)
    \/ \E l \in inflight, v \in Values : InitialLoadResolves(l, v)
    \/ \E l \in inflight, e \in LoadErrors : InitialLoadRejects(l, e)
    \/ \E t \in timers : Tick(t)
    \/ \E l \in inflight, v \in Values : TickLoadResolves(l, v)
    \/ \E l \in inflight, e \in LoadErrors : TickLoadRejects(l, e)

Spec == Init /\ [][Next]_vars

(***************************************************************************)
(* The source resolver and the dispatch: Config.load over every params     *)
(* object and every content of VCAP_SERVICES and of the fallback file, up  *)
(* to the settlement of the initial load of one invocation.                *)
(***************************************************************************)
InitResolver ==
    /\ envVcap \in EnvStrings
    /\ fileVcap \in FileContents
    /\ current = Undefined
    /\ call = [c \in CallIds |-> IdleCall]
    /\ timers = {}
    /\ inflight = {}
    /\ fired = [c \in CallIds |-> 0]
    /\ sinkCalls = [c \in CallIds |-> 0]
    /\ problems = [c \in CallIds |-> 0]
    /\ remote = [i \in RemoteLoads |-> IdleLoad]

NextResolver ==
    \/ \E text \in EnvStrings : SetEnv(text)
    \/ \E file \in FileContents : SetFile(file)
    \/ \E params \in AllParams : ConfigLoad(1, params)
    \/ \E l \in inflight, v \in Values : InitialLoadResolves(l, v)
    \/ \E l \in inflight, e \in LoadErrors : InitialLoadRejects(l, e)

SpecResolver == InitResolver /\ [][NextResolver]_vars

(***************************************************************************)
(* The refresh driver under a changing environment: one Config.load and    *)
(* its timer, while VCAP_SERVICES is set to other contents.                *)
(***************************************************************************)
InitRebind == Init

NextRebind ==
    \/ \E text \in EnvStrings : SetEnv(text)
    \/ \E params \in DriverParams : ConfigLoad(1, params)
    \/ \E l \in inflight, v \in Values : InitialLoadResolves(l, v)
    \/ \E l \in inflight, e \in LoadErrors : InitialLoadRejects(l, e)
    \/ \E t \in timers : Tick(t)
    \/ \E l \in inflight, v \in Values : TickLoadResolves(l, v)
    \/ \E l \in inflight, e \in LoadErrors : TickLoadRejects(l, e)

SpecRebind == InitRebind /\ [][NextRebind]_vars

(***************************************************************************)
(* The remote loader: two loadRemote calls over every descriptor of a      *)
(* bound config server and every answer of the two endpoints.              *)
(***************************************************************************)
InitRemote == Init

NextRemote ==
    \/ \E i \in RemoteLoads, config \in RemoteLoaderConfigs : LoadRemoteCall(i, config)
    \/ \E i \in RemoteLoads, body \in PostBodies : PostResponds(i, body)
    \/ \E i \in RemoteLoads, e \in RequestErrors : PostFails(i, e)
    \/ \E i \in RemoteLoads, ymlString \in YmlStrings : GetResponds(i, ymlString)
    \/ \E i \in RemoteLoads, e \in RequestErrors : GetFails(i, e)

SpecRemote == InitRemote /\ [][NextRemote]_vars

(***************************************************************************)
(* Properties of the refresh driver and the global holder.                 *)
(***************************************************************************)
\* the value invocation c delivered last: its latest tick's, else its initial load's
LastDelivered(c) ==
    IF call[c].refreshed # Undefined THEN call[c].refreshed ELSE call[c].result

\* invocation c is the only one whose sink has run
OnlyWriter(c) == \A d \in CallIds \ {c} : sinkCalls[d] = 0

\* C1: a refresh tick whose load rejects (its diagnostic is emitted) invokes no
\* sink and leaves Config.current as it was; and while one invocation is the only
\* writer, Config.current is the value of its last successful load, however many
\* ticks have failed since.
C1_FailedTickKeepsValue ==
    /\ [][\A c \in CallIds :
            problems'[c] # problems[c]
                => /\ problems'[c] = problems[c] + 1
                   /\ sinkCalls' = sinkCalls
                   /\ current' = current]_vars
    /\ [](\A c \in CallIds :
            (sinkCalls[c] >= 1 /\ OnlyWriter(c)) => current = LastDelivered(c))

\* two consecutive ticks of invocation 1 have failed and the holder still has the
\* value of the initial load
C1_Witness ==
    /\ problems[1] >= 2
    /\ sinkCalls[1] = 1
    /\ call[2].pc = "idle"
    /\ current = call[1].result
    /\ current \in Values

\* the initial load of invocation c has rejected
InitialLoadFailed(c) == call[c].loadError # NoError

\* C2: when the initial load rejects with an error, Config.load rejects with that
\* same error in that step, the step invokes no sink, schedules no timer and leaves
\* Config.current as it was; the invocation's sink is never invoked afterwards.
C2_InitialFailurePropagates ==
    /\ [][\A c \in CallIds :
            (~InitialLoadFailed(c) /\ InitialLoadFailed(c)')
                => /\ call'[c].pc = "rejected"
                   /\ call'[c].rejection = call'[c].loadError
                   /\ sinkCalls' = sinkCalls
                   /\ timers' = timers
                   /\ current' = current]_vars
    /\ [](\A c \in CallIds :
            InitialLoadFailed(c)
                => /\ call[c].pc = "rejected"
                   /\ call[c].rejection = call[c].loadError
                   /\ sinkCalls[c] = 0
                   /\ fired[c] = 0
                   /\ \A t \in timers : t.call # c)

\* the second Config.load was rejected by its initial load while the holder has
\* the value the first one delivered
C2_Witness ==
    /\ call[1].pc = "resolved"
    /\ call[2].pc = "rejected"
    /\ InitialLoadFailed(2)
    /\ call[2].rejection \in LoadErrors
    /\ current = LastDelivered(1)
    /\ current \in Values

\* C3: an invocation whose params carry no interval invokes its sink at most once,
\* exactly once when its promise has resolved, and has no timer and no tick.
C3_NoIntervalSinkOnce ==
    \A c \in CallIds :
        (call[c].pc # "idle" /\ "interval" \notin DOMAIN call[c].params)
            => /\ sinkCalls[c] <= 1
               /\ call[c].pc = "resolved" => sinkCalls[c] = 1
               /\ fired[c] = 0
               /\ \A t \in timers : t.call # c
               /\ \A l \in LoadsOf(c) : l.tick = 0

\* invocation 1 has no interval and delivered once, while the timer of
\* invocation 2 has used up the ticks of the run
C3_Witness ==
    /\ call[1].pc = "resolved"
    /\ "interval" \notin DOMAIN call[1].params
    /\ sinkCalls[1] = 1
    /\ fired[2] = MaxTicks
    /\ inflight = {}

\* ticks of invocation c that have fired and completed
Completed(c) == fired[c] - Cardinality(LoadsOf(c))

\* C4: with a positive interval and no failed load, the sink has been invoked
\* once for the initial load and once for each tick that has fired and completed.
C4_SinkOncePerTick ==
    \A c \in CallIds :
        (call[c].pc = "resolved" /\ TruthyInterval(call[c].params) /\ problems[c] = 0)
            => sinkCalls[c] = Completed(c) + 1

\* interval = 1, four ticks fired and completed, the sink invoked 5 times
C4_Witness ==
    /\ call[1].pc = "resolved"
    /\ TruthyInterval(call[1].params)
    /\ call[1].params.interval = 1
    /\ problems[1] = 0
    /\ fired[1] = 4
    /\ LoadsOf(1) = {}
    /\ sinkCalls[1] = 5

\* C5: the step in which a tick's load resolves invokes the sink once and leaves
\* Config.current equal to the value that load resolved with.
C5_SuccessfulTickReplaces ==
    [][\A l \in inflight :
            (l.tick > 0 /\ l \notin inflight' /\ problems' = problems)
                => /\ sinkCalls'[l.call] = sinkCalls[l.call] + 1
                   /\ current' = call'[l.call].refreshed
                   /\ current' \in Values]_vars

\* a tick replaced the value of the initial load by a different one
C5_Witness ==
    /\ sinkCalls[1] = 2
    /\ call[2].pc = "idle"
    /\ call[1].refreshed \in Values
    /\ call[1].refreshed # call[1].result
    /\ current = call[1].refreshed

\* C6: a resolved Config.load has had its initial load settled and delivered, so
\* Config.current is a loaded value; while no sink has run, Config.current is
\* undefined.
C6_ResolvedAfterFirstWrite ==
    /\ \A c \in CallIds :
           call[c].pc = "resolved"
               => /\ sinkCalls[c] >= 1
                  /\ call[c].result \in Values
                  /\ \A l \in LoadsOf(c) : l.tick # 0
                  /\ current \in Values
    /\ (\A c \in CallIds : sinkCalls[c] = 0) => current = Undefined

\* the first Config.load has just resolved: the holder has its initial load's value
C6_Witness ==
    /\ call[1].pc = "resolved"
    /\ call[2].pc = "idle"
    /\ fired[1] = 0
    /\ sinkCalls[1] = 1
    /\ current = call[1].result

(***************************************************************************)
(* Properties of the dispatch and of the source resolver.                  *)
(***************************************************************************)
\* getLoaderConfig returned a descriptor to invocation c (it did not throw)
Resolved(c) == call[c].pc \in {"loading", "resolved"} \/ InitialLoadFailed(c)

\* the loader the three-way dispatch names for a descriptor
ThreeWayLoader(config) ==
    IF "path" \in DOMAIN config
    THEN "loadLocal"
    ELSE IF {"access_token_uri", "client_id", "client_secret"} \subseteq DOMAIN config
         THEN "loadRemote"
         ELSE "loadRemoteSkipAuth"

\* C7: every load calls exactly the loader the descriptor's shape names among
\* the local, the authenticated remote and the unauthenticated remote loader,
\* with the descriptor as its argument.
C7_ThreeWayDispatch ==
    \A l \in inflight :
        /\ l.arg = call[l.call].config
        /\ l.loader = ThreeWayLoader(l.arg)

\* C8: for configLocation = "local", the descriptor getLoaderConfig returns is
\* exactly { path: "./{configServerName}/{appName}-{profile}.yml" }: it has no
\* other property.
C8_LocalDescriptorPath ==
    \A c \in CallIds :
        (Resolved(c) /\ call[c].params.configLocation = "local")
            => /\ DOMAIN call[c].config = {"path"}
               /\ call[c].config.path =
                      "./" \o call[c].params.configServerName \o "/"
                           \o call[c].params.appName \o "-"
                           \o call[c].params.profile \o ".yml"
               /\ (call[c].params.appName = "testApp"
                     /\ call[c].params.configServerName = "test-config")
                      => call[c].config.path = "./test-config/testApp-test.yml"

\* the local descriptor of the README's example
C8_Witness ==
    /\ Resolved(1)
    /\ call[1].params.configLocation = "local"
    /\ call[1].config = [path |-> "./myConfigServer/myExpressApp-test.yml"]

\* the credential properties of a Remote descriptor
CredentialFields == {"uri", "access_token_uri", "client_id", "client_secret"}

\* the p-config-server list invocation c read has an entry named n
HasBinding(c, n) ==
    /\ ~call[c].vcap_services.threw
    /\ "p-config-server" \in DOMAIN call[c].vcap_services.value
    /\ \E i \in 1..Len(call[c].vcap_services.value["p-config-server"]) :
           call[c].vcap_services.value["p-config-server"][i].name = n

\* that entry
BindingNamed(c, n) ==
    LET list == call[c].vcap_services.value["p-config-server"]
    IN  CHOOSE b \in { list[i] : i \in 1..Len(list) } : b.name = n

\* C9: for configLocation = "remote" and a p-config-server list with an entry
\* named configServerName, getLoaderConfig returns a descriptor whose appName
\* and profile are the params' and whose credential properties are those of
\* that entry.
C9_RemoteDescriptorFromBinding ==
    \A c \in CallIds :
        (/\ call[c].pc # "idle"
         /\ call[c].params.configLocation = "remote"
         /\ HasBinding(c, call[c].params.configServerName))
            => /\ Resolved(c)
               /\ call[c].config.appName = call[c].params.appName
               /\ call[c].config.profile = call[c].params.profile
               /\ LET cred ==
                          BindingNamed(c, call[c].params.configServerName).credentials
                  IN  \A k \in CredentialFields :
                          IF k \in DOMAIN cred
                          THEN k \in DOMAIN call[c].config /\ call[c].config[k] = cred[k]
                          ELSE k \notin DOMAIN call[c].config

\* the descriptor of the test fixture, whose binding is the second of the list
C9_Witness ==
    /\ Resolved(1)
    /\ call[1].params.configLocation = "remote"
    /\ call[1].params.configServerName = "test-config"
    /\ call[1].vcap_services = Return(RegHyphen)
    /\ call[1].config =
           [appName |-> call[1].params.appName, profile |-> "test",
            uri |-> "local.config", access_token_uri |-> "local.token",
            client_id |-> "id", client_secret |-> "secret"]

\* the registry invocation c read has neither service-type key
NeitherKey(c) ==
    /\ ~call[c].vcap_services.threw
    /\ "p-config-server" \notin DOMAIN call[c].vcap_services.value
    /\ "p.config-server" \notin DOMAIN call[c].vcap_services.value

\* C10: for configLocation = "remote" and a registry with neither service-type
\* key, getLoaderConfig returns no descriptor and throws an error whose message
\* names both keys.
C10_NeitherKeyMessage ==
    \A c \in CallIds :
        (/\ call[c].pc # "idle"
         /\ call[c].params.configLocation = "remote"
         /\ NeitherKey(c))
            => /\ ~Resolved(c)
               /\ call[c].pc = "rejected"
               /\ call[c].rejection.message =
                      "Either p-config-server or p.config-server must be defined on VCAP_SERVICES"

\* the registry invocation c read has only the dotted key, with an entry named n
HasDottedBinding(c, n) ==
    /\ ~call[c].vcap_services.threw
    /\ "p-config-server" \notin DOMAIN call[c].vcap_services.value
    /\ "p.config-server" \in DOMAIN call[c].vcap_services.value
    /\ \E i \in 1..Len(call[c].vcap_services.value["p.config-server"]) :
           call[c].vcap_services.value["p.config-server"][i].name = n

\* that entry
DottedBindingNamed(c, n) ==
    LET list == call[c].vcap_services.value["p.config-server"]
    IN  CHOOSE b \in { list[i] : i \in 1..Len(list) } : b.name = n

\* C11: for configLocation = "remote" and a registry that has only the dotted key
\* "p.config-server", with an entry named configServerName, getLoaderConfig
\* returns the Remote descriptor built from that entry's credentials.
C11_DottedKeyAccepted ==
    \A c \in CallIds :
        (/\ call[c].pc # "idle"
         /\ call[c].params.configLocation = "remote"
         /\ HasDottedBinding(c, call[c].params.configServerName))
            => /\ Resolved(c)
               /\ call[c].config =
                      Spread([appName |-> call[c].params.appName,
                              profile |-> call[c].params.profile],
                             DottedBindingNamed(c, call[c].params.configServerName).credentials)

\* the value of the environment variable CONFIG_SERVER_URI_WHEN_SKIP_AUTH
SkipAuthUri == "http://localhost:8888"

\* C12: for configLocation = "remoteSkipAuth", getLoaderConfig returns exactly
\* { appName, profile, uri }, with uri the value of
\* CONFIG_SERVER_URI_WHEN_SKIP_AUTH: no path, no credential property.
C12_SkipAuthDescriptor ==
    \A c \in CallIds :
        (Resolved(c) /\ call[c].params.configLocation = "remoteSkipAuth")
            => call[c].config =
                   [appName |-> call[c].params.appName,
                    profile |-> call[c].params.profile,
                    uri |-> SkipAuthUri]

\* Config.load is invoked as c in this step (getLoaderConfig runs in it)
Invoked(c) == call[c].pc = "idle" /\ call[c].pc' # "idle"

\* C14: the service-binding reader returns the parsed JSON of a non-empty
\* VCAP_SERVICES string whatever the fallback file holds (an unparseable string
\* throws, a parsed null gives the empty mapping); for an undefined or empty
\* string it returns the parsed fallback file when the file exists and the empty
\* mapping, without error, when it does not.
C14_EnvBeforeFile ==
    [][\A c \in CallIds :
          Invoked(c)
              => LET got == call[c].vcap_services'
                 IN  /\ envVcap.kind = "json" => got = Return(envVcap.value)
                     /\ envVcap.kind = "null" => got = Return(EmptyObject)
                     /\ envVcap.kind = "malformed" => got.threw
                     /\ (envVcap.kind \in {"unset", "empty"} /\ fileVcap.kind = "json")
                            => got = Return(fileVcap.value)
                     /\ (envVcap.kind \in {"unset", "empty"} /\ fileVcap.kind = "absent")
                            => got = Return(EmptyObject)]_vars

\* the reader returned the registry of VCAP_SERVICES, which no fallback file
\* of the model holds, while an unparseable fallback file exists
C14_Witness ==
    /\ call[1].pc # "idle"
    /\ call[1].vcap_services = Return(RegDot)
    /\ envVcap = [kind |-> "json", value |-> RegDot]
    /\ fileVcap.kind = "malformed"

\* C18: for configLocation = "local", getLoaderConfig returns the path
\* descriptor whatever VCAP_SERVICES and the fallback file contain.
C18_LocalNeedsNoBindings ==
    \A c \in CallIds :
        (call[c].pc # "idle" /\ call[c].params.configLocation = "local")
            => /\ Resolved(c)
               /\ call[c].config = [path |-> LocalPath(call[c].params)]

\* the p-config-server list invocation c read has no entry named n
LacksBinding(c, n) ==
    /\ ~call[c].vcap_services.threw
    /\ "p-config-server" \in DOMAIN call[c].vcap_services.value
    /\ ~HasBinding(c, n)

\* C19 as stated: for configLocation = "remote" and a p-config-server list
\* without an entry named configServerName, getLoaderConfig returns no
\* descriptor and fails with a NotFoundError.
C19_NotFoundError ==
    \A c \in CallIds :
        (/\ call[c].pc # "idle"
         /\ call[c].params.configLocation = "remote"
         /\ LacksBinding(c, call[c].params.configServerName))
            => /\ ~Resolved(c)
               /\ call[c].pc = "rejected"
               /\ call[c].rejection.name = "NotFoundError"

\* C19 amended: for configLocation = "remote" and a p-config-server list without
\* an entry named configServerName, getLoaderConfig returns no descriptor: it
\* fails with the TypeError of destructuring the undefined result of find, the
\* promise of Config.load rejects with it, and no load is started.
C19_MissingBindingThrows ==
    \A c \in CallIds :
        (/\ call[c].pc # "idle"
         /\ call[c].params.configLocation = "remote"
         /\ LacksBinding(c, call[c].params.configServerName))
            => /\ ~Resolved(c)
               /\ call[c].pc = "rejected"
               /\ call[c].config = EmptyObject
               /\ call[c].rejection = TypeErrorDestructure
               /\ call[c].rejection.name = "TypeError"
               /\ LoadsOf(c) = {}
               /\ sinkCalls[c] = 0

\* the list holds only "test-config" and "myConfigServer" was asked for
C19_Witness ==
    /\ call[1].pc = "rejected"
    /\ call[1].params.configLocation = "remote"
    /\ call[1].params.configServerName = "myConfigServer"
    /\ call[1].vcap_services = Return(RegUriOnly)
    /\ call[1].rejection.name = "TypeError"

\* C15: no two loads of one refresh driver are in progress at the same time.
C15_NoOverlappingLoads ==
    \A c \in CallIds : Cardinality(LoadsOf(c)) <= 1

\* the timers invocation c has scheduled
TimersOf(c) == { t \in timers : t.call = c }

\* C16: a failed tick leaves every timer scheduled and logs one diagnostic line
\* that ends with the string form of the error the load rejected with; after
\* any number of failed ticks the timer of the invocation can still fire (while
\* the run has ticks left), and a later tick whose load resolves invokes the
\* sink with its result.
C16_FailedTickKeepsTimer ==
    /\ [][\A c \in CallIds :
            problems'[c] # problems[c]
                => /\ timers' = timers
                   /\ problems'[c] = problems[c] + 1
                   /\ call'[c].refreshError \in LoadErrors
                   /\ call'[c].diagnostic =
                          "Problem encountered while refreshing config; using previous config: "
                              \o call'[c].refreshError.name \o ": "
                              \o call'[c].refreshError.message]_vars
    /\ [][\A l \in inflight :
            (l.tick > 0 /\ problems[l.call] > 0 /\ l \notin inflight'
               /\ problems' = problems)
                => /\ sinkCalls'[l.call] = sinkCalls[l.call] + 1
                   /\ current' = call'[l.call].refreshed]_vars
    /\ [](\A c \in CallIds :
            problems[c] > 0
                => /\ TimersOf(c) # {}
                   /\ TotalFired < MaxTicks => \A t \in TimersOf(c) : ENABLED Tick(t))

\* the first two ticks of invocation 1 failed, and its third tick has fired and
\* its load is in progress
C16_Witness ==
    /\ problems[1] = 2
    /\ fired[1] = 3
    /\ sinkCalls[1] = 1
    /\ \E l \in inflight : l.call = 1 /\ l.tick = 3
    /\ Cardinality(LoadsOf(1)) = 1
    /\ call[1].diagnostic =
           "Problem encountered while refreshing config; using previous config: Error: error loading local config"

\* C17: once the initial load has succeeded, the invocation has a timer exactly
\* when its interval is a positive number, and the timer's period is interval
\* seconds (interval * 1000 ms); before that, and after a failed initial load,
\* it has none.
C17_TimerIffPositiveInterval ==
    \A c \in CallIds :
        /\ call[c].pc = "resolved"
              => TimersOf(c) =
                     IF "interval" \in DOMAIN call[c].params /\ call[c].params.interval > 0
                     THEN { [call |-> c, period |-> 1000 * call[c].params.interval] }
                     ELSE {}
        /\ call[c].pc # "resolved" => TimersOf(c) = {}

\* invocation 1 (interval 1) has a timer of 1000 ms, invocation 2 (interval 0)
\* has resolved and has none
C17_Witness ==
    /\ call[1].pc = "resolved"
    /\ call[2].pc = "resolved"
    /\ "interval" \in DOMAIN call[1].params
    /\ "interval" \in DOMAIN call[2].params
    /\ call[1].params.interval = 1
    /\ call[2].params.interval = 0
    /\ timers = { [call |-> 1, period |-> 1000] }

(***************************************************************************)
(* Properties of the remote loader.                                        *)
(***************************************************************************)
IsRequest(ev, m) == "method" \in DOMAIN ev /\ ev.method = m

IsAnswer(ev, m) == "answer" \in DOMAIN ev /\ ev.answer = m

IsFailure(ev, m) == "failure" \in DOMAIN ev /\ ev.failure = m

\* the positions of the log of load i that hold a request of method m
RequestsAt(i, m) ==
    { n \in 1..Len(remote[i].log) : IsRequest(remote[i].log[n], m) }

\* C13: a load that has been called has issued the token POST to
\* access_token_uri with grant_type=client_credentials, client_id and
\* client_secret; every config GET in its log comes after the answer to that
\* POST, goes to "{uri}/{appName}-{profile}.yml", and when the answer holds an
\* access_token its authorization header is "bearer " followed by that token.
C13_PostAnsweredBeforeGet ==
    \A i \in RemoteLoads :
        LET log == remote[i].log
            config == remote[i].config
        IN  /\ remote[i].pc # "idle"
                 => /\ IsRequest(log[1], "POST")
                    /\ log[1].uri = config.access_token_uri
                    /\ log[1].form = [grant_type |-> "client_credentials",
                                      client_id |-> config.client_id,
                                      client_secret |-> config.client_secret]
            /\ \A g \in RequestsAt(i, "GET") :
                 /\ g = 3
                 /\ IsAnswer(log[2], "POST")
                 /\ log[2].body.kind = "json"
                 /\ log[g].uri =
                        config.uri \o "/" \o config.appName \o "-" \o config.profile \o ".yml"
                 /\ "access_token" \in DOMAIN log[2].body.value
                        => log[g].headers.authorization =
                               "bearer " \o log[2].body.value.access_token

\* both loads have resolved, each after a GET carrying the token of its own POST
C13_Witness ==
    /\ remote[1].pc = "resolved"
    /\ remote[2].pc = "resolved"
    /\ remote[1].config.uri = "local.config"
    /\ remote[1].config.appName = "testApp"
    /\ remote[1].config.profile = "test"
    /\ remote[1].log[2] = [answer |-> "POST",
                           body |-> [kind |-> "json", value |-> [access_token |-> "1234"]]]
    /\ remote[1].log[3] = [method |-> "GET", uri |-> "local.config/testApp-test.yml",
                           headers |-> [authorization |-> "bearer 1234"]]
    /\ remote[2].log[2].body.value = [access_token |-> "test_token"]
    /\ remote[2].log[3].headers.authorization = "bearer test_token"

\* C20: a load issues at most one POST and at most one GET; a POST that fails
\* or is answered with text that is not JSON rejects the load with no GET
\* issued; a GET that fails rejects the load; and a settled load issues
\* nothing more.
C20_NoRetry ==
    /\ [](\A i \in RemoteLoads :
            LET log == remote[i].log
            IN  /\ Cardinality(RequestsAt(i, "POST")) <= 1
                /\ Cardinality(RequestsAt(i, "GET")) <= 1
                /\ \A n \in 1..Len(log) :
                     \/ IsFailure(log[n], "POST")
                     \/ IsAnswer(log[n], "POST") /\ log[n].body.kind = "malformed"
                     => /\ remote[i].pc = "rejected"
                        /\ RequestsAt(i, "GET") = {}
                /\ \A n \in 1..Len(log) :
                     IsFailure(log[n], "GET") => remote[i].pc = "rejected")
    /\ [][\A i \in RemoteLoads :
            remote[i].pc \in {"resolved", "rejected"} => remote'[i] = remote[i]]_vars

\* load 1 was rejected by an unparseable token answer, load 2 by a failed GET
C20_Witness ==
    /\ remote[1].pc = "rejected"
    /\ remote[1].error = SyntaxError
    /\ Len(remote[1].log) = 2
    /\ remote[2].pc = "rejected"
    /\ Len(remote[2].log) = 4
    /\ IsFailure(remote[2].log[4], "GET")
    /\ remote[2].error = remote[2].log[4].error

\* C21: when the token POST is answered with parseable JSON that has no
\* access_token field, the load is not rejected at the token step: the config
\* GET is issued next, with the authorization header "bearer undefined".
C21_MissingTokenStillGets ==
    \A i \in RemoteLoads :
        LET log == remote[i].log
        IN  (/\ Len(log) >= 2
             /\ IsAnswer(log[2], "POST")
             /\ log[2].body.kind = "json"
             /\ "access_token" \notin DOMAIN log[2].body.value)
                => /\ Len(log) >= 3
                   /\ IsRequest(log[3], "GET")
                   /\ log[3].headers = [authorization |-> "bearer undefined"]
                   /\ remote[i].error \notin {SyntaxError} \cup RequestErrors
                          \/ IsFailure(log[Len(log)], "GET")

\* load 1 got {} from the token endpoint and is awaiting its GET, sent with
\* "bearer undefined"
C21_Witness ==
    /\ remote[1].pc = "getting"
    /\ remote[1].log[2] = [answer |-> "POST",
                           body |-> [kind |-> "json", value |-> EmptyObject]]
    /\ remote[1].log[3].headers.authorization = "bearer undefined"
    /\ Len(remote[1].log) = 3

\* C22: no descriptor getLoaderConfig returns has both a path and a uri, and
\* the load of a descriptor resolved for configLocation = "remote" is handed
\* to the remote loader.
C22_OneShape ==
    \A c \in CallIds :
        Resolved(c)
            => /\ ~ ({"path", "uri"} \subseteq DOMAIN call[c].config)
               /\ call[c].params.configLocation = "remote"
                      => \A l \in LoadsOf(c) : l.loader = "loadRemote"

\* C23: the sink deliveries of one driver happen in the order in which their
\* loads were started: when the load of a tick is delivered and no load of the
\* driver has failed, every tick fired after it is still in progress (none of
\* them has been delivered before it).
C23_DeliveriesInStartOrder ==
    [][\A l \in inflight :
          (/\ l.tick > 0
           /\ l \notin inflight'
           /\ sinkCalls'[l.call] = sinkCalls[l.call] + 1
           /\ problems[l.call] = 0)
              => \A j \in (l.tick + 1)..fired[l.call] :
                     \E m \in inflight : m.call = l.call /\ m.tick = j]_vars

\* C24: once Config.load has resolved the descriptor, the descriptor and the
\* service bindings it read never change, whatever VCAP_SERVICES is set to
\* afterwards, and every load of the invocation, initial or tick, is started
\* with that descriptor.
C24_DescriptorResolvedOnce ==
    /\ [][\A c \in CallIds :
            call[c].pc # "idle"
                => /\ call'[c].config = call[c].config
                   /\ call'[c].vcap_services = call[c].vcap_services
                   /\ call'[c].params = call[c].params]_vars
    /\ [](\A l \in inflight :
            /\ l.arg = call[l.call].config
            /\ l.loader = Dispatch(call[l.call].config).loader)

\* a tick load of the remote descriptor read from the fallback file is in
\* progress after VCAP_SERVICES was set to bindings with another uri
C24_Witness ==
    /\ call[1].pc = "resolved"
    /\ call[1].vcap_services = Return(RegHyphen)
    /\ envVcap = [kind |-> "json", value |-> RegUriOnly]
    /\ \E l \in inflight :
          /\ l.call = 1
          /\ l.tick = 2
          /\ l.loader = "loadRemote"
          /\ l.arg.uri = "local.config"
          /\ l.arg = call[1].config
    /\ getLoaderConfig(call[1].params, envVcap, fileVcap) # Return(call[1].config)

====
